---------------------------- MODULE Spec2Model ----------------------------
(***************************************************************************)
(* Model of src/src/representations/number.rs: the coefficient algebra     *)
(* (normalize, add, mul, pow, cmp on Number / BorrowedNumber) and the      *)
(* packed codec (write_packed, get_packed_size and the readers of          *)
(* PackedRationalNumberReader).                                            *)
(*                                                                         *)
(* Machine integers are 64 bits wide in the source and the model checker's *)
(* integers are 32 bits wide, so every u64 / i64 / rug::Integer value is   *)
(* kept as a magnitude: the little-endian sequence of its base-256 digits  *)
(* without leading (most significant) zero digits; zero is << >>.  A       *)
(* signed value is a record [neg, mag] with neg = FALSE for zero.          *)
(***************************************************************************)
EXTENDS Integers, Sequences, FiniteSets, TLC

(***************************************************************************)
(* Bytes and bit operations on bytes (u8 & u8, u8 | u8).                   *)
(***************************************************************************)
Byte == 0..255

RECURSIVE BitAnd(_, _)
BitAnd(a, b) ==
    IF a = 0 \/ b = 0 THEN 0
    ELSE (IF a % 2 = 1 /\ b % 2 = 1 THEN 1 ELSE 0) + 2 * BitAnd(a \div 2, b \div 2)

RECURSIVE BitOr(_, _)
BitOr(a, b) ==
    IF a = 0 THEN b
    ELSE IF b = 0 THEN a
    ELSE (IF a % 2 = 1 \/ b % 2 = 1 THEN 1 ELSE 0) + 2 * BitOr(a \div 2, b \div 2)

(***************************************************************************)
(* Magnitudes: unsigned integers of any size.                              *)
(***************************************************************************)
Limb(a, i) == IF i <= Len(a) THEN a[i] ELSE 0

RECURSIVE Strip(_)
Strip(a) ==
    IF a = << >> THEN << >>
    ELSE IF a[Len(a)] = 0 THEN Strip(SubSeq(a, 1, Len(a) - 1))
    ELSE a

\* Pad(a, k): the k low digits of a, i.e. (a mod 256^k) as exactly k bytes.
Pad(a, k) == [i \in 1..k |-> Limb(a, i)]

RECURSIVE MagCmpFrom(_, _, _)
MagCmpFrom(a, b, i) ==
    IF i = 0 THEN 0
    ELSE IF a[i] < b[i] THEN -1
    ELSE IF a[i] > b[i] THEN 1
    ELSE MagCmpFrom(a, b, i - 1)

\* -1, 0, 1 as a < b, a = b, a > b
MagCmp(a, b) ==
    IF Len(a) < Len(b) THEN -1
    ELSE IF Len(a) > Len(b) THEN 1
    ELSE MagCmpFrom(a, b, Len(a))

MagLt(a, b) == MagCmp(a, b) = -1
MagLe(a, b) == MagCmp(a, b) # 1

RECURSIVE MagAddC(_, _, _, _)
MagAddC(a, b, i, c) ==
    IF i > Len(a) /\ i > Len(b) THEN (IF c = 0 THEN << >> ELSE <<c>>)
    ELSE LET s == Limb(a, i) + Limb(b, i) + c
         IN  <<s % 256>> \o MagAddC(a, b, i + 1, s \div 256)

MagAdd(a, b) == MagAddC(a, b, 1, 0)

RECURSIVE MagSubC(_, _, _, _)
MagSubC(a, b, i, c) ==
    IF i > Len(a) THEN << >>
    ELSE LET s == a[i] - Limb(b, i) - c
         IN  IF s < 0 THEN <<s + 256>> \o MagSubC(a, b, i + 1, 1)
             ELSE <<s>> \o MagSubC(a, b, i + 1, 0)

\* a - b for a >= b
MagSub(a, b) == Strip(MagSubC(a, b, 1, 0))

RECURSIVE MagMulSmallC(_, _, _, _)
MagMulSmallC(a, k, i, c) ==
    IF i > Len(a) THEN (IF c = 0 THEN << >> ELSE <<c>>)
    ELSE LET s == a[i] * k + c
         IN  <<s % 256>> \o MagMulSmallC(a, k, i + 1, s \div 256)

\* a * k for a digit k
MagMulSmall(a, k) == IF k = 0 THEN << >> ELSE MagMulSmallC(a, k, 1, 0)

\* a * 256 + k for a digit k
MagShiftIn(a, k) == IF a = << >> /\ k = 0 THEN << >> ELSE <<k>> \o a

\* Long multiplication: st.acc + st.a * st.b, one digit of st.b at a time.
RECURSIVE MagMulLoop(_)
MagMulLoop(st) ==
    IF st.b = << >> THEN st.acc
    ELSE MagMulLoop([acc |-> MagAdd(st.acc, MagMulSmall(st.a, st.b[1])),
                     a |-> <<0>> \o st.a,
                     b |-> Tail(st.b)])

MagMul(a, b) ==
    IF a = << >> \/ b = << >> THEN << >>
    ELSE IF Len(b) = 1 THEN MagMulSmall(a, b[1])
    ELSE MagMulLoop([acc |-> << >>, a |-> a, b |-> b])

\* The largest digit q with q * b <= t, found one bit at a time (t < 256 * b).
RECURSIVE MagDigit(_, _, _, _)
MagDigit(t, b, q, bit) ==
    IF bit = 0 THEN q
    ELSE IF MagLe(MagMulSmall(b, q + bit), t) THEN MagDigit(t, b, q + bit, bit \div 2)
    ELSE MagDigit(t, b, q, bit \div 2)

\* Magnitude of a small non-negative integer of the model checker, and back
\* (for magnitudes of at most three digits).
RECURSIVE MagOf(_)
MagOf(k) == IF k = 0 THEN << >> ELSE <<k % 256>> \o MagOf(k \div 256)

SmallOf(a) == Limb(a, 1) + 256 * Limb(a, 2) + 65536 * Limb(a, 3)

\* Long division: <<quotient, remainder>> of a by b # 0.
RECURSIVE MagDivMod(_, _)
MagDivMod(a, b) ==
    IF MagLt(a, b) THEN << << >>, a >>
    ELSE IF Len(a) <= 3
    THEN << MagOf(SmallOf(a) \div SmallOf(b)), MagOf(SmallOf(a) % SmallOf(b)) >>
    ELSE LET qr == MagDivMod(Tail(a), b)
             t  == MagShiftIn(qr[2], a[1])
             q  == MagDigit(t, b, 0, 128)
         IN  << MagShiftIn(qr[1], q), MagSub(t, MagMulSmall(b, q)) >>

MagDiv(a, b) == MagDivMod(a, b)[1]
MagMod(a, b) == MagDivMod(a, b)[2]

RECURSIVE MagGcd(_, _)
MagGcd(a, b) == IF b = << >> THEN a ELSE MagGcd(b, MagMod(a, b))

\* 256^k
MagPow256(k) == [i \in 1..(k + 1) |-> IF i = k + 1 THEN 1 ELSE 0]

(***************************************************************************)
(* Signed integers of any size (rug::Integer), and the i64 / u64 ranges.   *)
(***************************************************************************)
MkInt(neg, mag) == [neg |-> neg /\ mag # << >>, mag |-> mag]

\* The signed integer of a small integer of the model checker.
I(k) == IF k < 0 THEN MkInt(TRUE, MagOf(-k)) ELSE MkInt(FALSE, MagOf(k))

Zero == I(0)
One == I(1)

INeg(a) == MkInt(~a.neg, a.mag)
IAbs(a) == MkInt(FALSE, a.mag)
IsZero(a) == a.mag = << >>
IsNeg(a) == a.neg
IsPos(a) == ~a.neg /\ a.mag # << >>

IAdd(a, b) ==
    IF a.neg = b.neg THEN MkInt(a.neg, MagAdd(a.mag, b.mag))
    ELSE IF MagLe(b.mag, a.mag) THEN MkInt(a.neg, MagSub(a.mag, b.mag))
    ELSE MkInt(b.neg, MagSub(b.mag, a.mag))

IMul(a, b) == MkInt(a.neg # b.neg, MagMul(a.mag, b.mag))

\* Division truncating toward zero (the / of Rust's integers), b # 0.
IDiv(a, b) == MkInt(a.neg # b.neg, MagDiv(a.mag, b.mag))

\* -1, 0, 1 as a < b, a = b, a > b
ICmp(a, b) ==
    IF a.neg /\ ~b.neg THEN -1
    ELSE IF ~a.neg /\ b.neg THEN 1
    ELSE IF a.neg THEN MagCmp(b.mag, a.mag)
    ELSE MagCmp(a.mag, b.mag)

ILt(a, b) == ICmp(a, b) = -1

\* 2^63, 2^64
Mag2p63 == <<0, 0, 0, 0, 0, 0, 0, 128>>
Mag2p64 == MagPow256(8)

FitsU64(m) == Len(m) <= 8
FitsI64(a) == MagLt(a.mag, Mag2p63) \/ (a.neg /\ a.mag = Mag2p63)

I64_MAX == MkInt(FALSE, MagSub(Mag2p63, <<1>>))
I64_MIN == MkInt(TRUE, Mag2p63)

\* Option<i64>: None keeps a zero payload so that all options have one shape.
Some(v) == [some |-> TRUE, val |-> v]
None == [some |-> FALSE, val |-> Zero]

\* i64::checked_mul, i64::checked_add: the exact result when it is an i64.
checked_mul(a, b) == LET p == IMul(a, b) IN IF FitsI64(p) THEN Some(p) ELSE None
checked_add(a, b) == LET s == IAdd(a, b) IN IF FitsI64(s) THEN Some(s) ELSE None

(***************************************************************************)
(* Casts between the integer types.                                        *)
(***************************************************************************)
\* i64 as u64, and usize/i64 values that are already non-negative: two's complement.
AsU64(a) == IF a.neg THEN MagSub(Mag2p64, a.mag) ELSE a.mag

\* u64 as i64: values from 2^63 on wrap to the negative range.
AsI64(m) == IF MagLt(m, Mag2p63) THEN MkInt(FALSE, m) ELSE MkInt(TRUE, MagSub(Mag2p64, m))

\* i64 as u32: the low 32 bits.
AsU32(a) == Strip(Pad(AsU64(a), 4))

\* i64::abs and unary minus overflow on i64::MIN alone: a panic in a build with
\* overflow checks, the wrapped value i64::MIN in a build without them.
i64_abs(a, checks) ==
    IF a = I64_MIN THEN (IF checks THEN None ELSE Some(I64_MIN)) ELSE Some(IAbs(a))

i64_neg(a, checks) ==
    IF a = I64_MIN THEN (IF checks THEN None ELSE Some(I64_MIN)) ELSE Some(INeg(a))

(***************************************************************************)
(* The discriminator byte.                                                 *)
(***************************************************************************)
U8_NUM == 1
U16_NUM == 2
U32_NUM == 3
U64_NUM == 4
FIN_NUM == 5
ARB_NUM == 7
U8_DEN == 16
U16_DEN == 32
U32_DEN == 48
U64_DEN == 64
ARB_DEN == 112
NUM_MASK == 15
DEN_MASK == 112
SIGN == 128

\* u8::MAX, u16::MAX, u32::MAX as u64
U8_MAX == <<255>>
U16_MAX == <<255, 255>>
U32_MAX == <<255, 255, 255, 255>>

\* std::mem::size_of::<Rational>(): two mpz_t of 16 bytes on a 64-bit target
SizeOfRational == 32

\* A result of an operation that may panic.
Ok(v) == [ok |-> TRUE, val |-> v]
Panic(msg) == [ok |-> FALSE, val |-> msg]

get_size_of_natural(num_type) ==
    CASE num_type = 0 -> Ok(0)
      [] num_type = U8_NUM -> Ok(1)
      [] num_type = U16_NUM -> Ok(2)
      [] num_type = U32_NUM -> Ok(4)
      [] num_type = U64_NUM -> Ok(8)
      [] OTHER -> Panic("unreachable")

(***************************************************************************)
(* Number and BorrowedNumber.  In the codec a Large holds the Rational     *)
(* object's own bytes (the tape stores them verbatim); in the algebra it   *)
(* holds the rational's value.                                             *)
(***************************************************************************)
Natural(num, den) == [kind |-> "Natural", num |-> num, den |-> den]
Large(r) == [kind |-> "Large", rat |-> r]
FiniteField(num, field) == [kind |-> "FiniteField", elem |-> num, field |-> field]

(***************************************************************************)
(* The writer.                                                             *)
(***************************************************************************)
\* <(u64, u64) as PackedRationalNumberWriter>::write_packed
write_packed_u64(self0, self1, dest) ==
    LET p == Len(dest) + 1
        d1 == IF MagLt(self0, U8_MAX) THEN dest \o <<U8_NUM>> \o Pad(self0, 1)
              ELSE IF MagLt(self0, U16_MAX) THEN dest \o <<U16_NUM>> \o Pad(self0, 2)
              ELSE IF MagLt(self0, U32_MAX) THEN dest \o <<U32_NUM>> \o Pad(self0, 4)
              ELSE dest \o <<U64_NUM>> \o Pad(self0, 8)
    IN  IF self1 = <<1>> THEN d1
        ELSE IF MagLt(self1, U8_MAX)
        THEN [d1 EXCEPT ![p] = BitOr(@, U8_DEN)] \o Pad(self1, 1)
        ELSE IF MagLt(self1, U16_MAX)
        THEN [d1 EXCEPT ![p] = BitOr(@, U16_DEN)] \o Pad(self1, 2)
        ELSE IF MagLt(self1, U32_MAX)
        THEN [d1 EXCEPT ![p] = BitOr(@, U32_DEN)] \o <<3>> \o Pad(self1, 4)
        ELSE [d1 EXCEPT ![p] = BitOr(@, U64_DEN)] \o Pad(self1, 8)

\* A writer that takes the sign bit from the numerator alone.
write_packed_i64_numerator_sign(self0, self1, dest, checks) ==
    LET p == Len(dest) + 1
        num == i64_abs(self0, checks)
        den == i64_abs(self1, checks)
    IN  IF ~num.some \/ ~den.some THEN Panic("attempt to negate with overflow")
        ELSE LET d1 == write_packed_u64(AsU64(num.val), AsU64(den.val), dest)
             IN  IF self0.neg THEN Ok([d1 EXCEPT ![p] = BitOr(@, SIGN)])
                 ELSE Ok(d1)

\* <(i64, i64) as PackedRationalNumberWriter>::write_packed
write_packed_i64(self0, self1, dest, checks) ==
    LET p == Len(dest) + 1
        num == i64_abs(self0, checks)
        den == i64_abs(self1, checks)
    IN  IF ~num.some \/ ~den.some THEN Panic("attempt to negate with overflow")
        ELSE LET d1 == write_packed_u64(AsU64(num.val), AsU64(den.val), dest)
             IN  IF (~self0.neg /\ self1.neg) \/ (self0.neg /\ ~self1.neg)
                 THEN Ok([d1 EXCEPT ![p] = BitOr(@, SIGN)])
                 ELSE Ok(d1)

\* <Number as PackedRationalNumberWriter>::write_packed
write_packed(self, dest, checks) ==
    CASE self.kind = "Natural" -> write_packed_i64(self.num, self.den, dest, checks)
      [] self.kind = "Large" -> Ok(dest \o <<BitOr(ARB_NUM, ARB_DEN)>> \o self.rat)
      [] self.kind = "FiniteField" ->
            Ok(write_packed_u64(self.elem, self.field, dest \o <<FIN_NUM>>))

\* <(u64, u64) as PackedRationalNumberWriter>::get_packed_size
get_packed_size_u64(self0, self1) ==
    LET n == IF MagLt(self0, U8_MAX) THEN get_size_of_natural(U8_NUM).val
             ELSE IF MagLt(self0, U16_MAX) THEN get_size_of_natural(U16_NUM).val
             ELSE IF MagLt(self0, U32_MAX) THEN get_size_of_natural(U32_NUM).val
             ELSE get_size_of_natural(U64_NUM).val
        d == IF self1 = <<1>> THEN 0
             ELSE IF MagLt(self1, U8_MAX) THEN get_size_of_natural(U8_NUM).val
             ELSE IF MagLt(self1, U16_MAX) THEN get_size_of_natural(U16_NUM).val
             ELSE IF MagLt(self1, U32_MAX) THEN get_size_of_natural(U32_NUM).val
             ELSE get_size_of_natural(U64_NUM).val
    IN  1 + n + d

\* <(i64, i64) as PackedRationalNumberWriter>::get_packed_size
get_packed_size_i64(self0, self1) == get_packed_size_u64(AsU64(self0), AsU64(self1))

\* <Number as PackedRationalNumberWriter>::get_packed_size
get_packed_size(self) ==
    CASE self.kind = "Natural" -> get_packed_size_i64(self.num, self.den)
      [] self.kind = "Large" -> 1 + SizeOfRational
      [] self.kind = "FiniteField" -> 2 + get_packed_size_u64(self.elem, self.field)

(***************************************************************************)
(* The writer into a slot of fixed size.  A slot in use is the record      *)
(* [buf, pos, ok, msg]: the bytes of the slot, the index of the next byte  *)
(* that BufMut writes, and whether a panic has happened (with its          *)
(* message); after a panic nothing more is written.                        *)
(***************************************************************************)
Slot(buf) == [buf |-> buf, pos |-> 1, ok |-> TRUE, msg |-> ""]

Fail(st, msg) == IF st.ok THEN [st EXCEPT !.ok = FALSE, !.msg = msg] ELSE st

\* BufMut::put_u8, put_u16_le, put_u32_le, put_u64_le on a &mut [u8]: the
\* bytes go to the front of the slice, which then starts behind them; a panic
\* when the slice is shorter than the bytes.
put_bytes(st, bytes) ==
    IF ~st.ok THEN st
    ELSE IF st.pos + Len(bytes) - 1 > Len(st.buf) THEN Fail(st, "out of bounds")
    ELSE [st EXCEPT !.buf = [i \in 1..Len(st.buf) |->
                                IF i >= st.pos /\ i < st.pos + Len(bytes)
                                THEN bytes[i - st.pos + 1] ELSE st.buf[i]],
                    !.pos = st.pos + Len(bytes)]

\* *tag = v
set_tag(st, t, v) == IF st.ok THEN [st EXCEPT !.buf[t] = v] ELSE st

\* *tag |= v, dest[0] |= v
or_tag(st, t, v) == IF st.ok THEN [st EXCEPT !.buf[t] = BitOr(@, v)] ELSE st

\* <(u64, u64) as PackedRationalNumberWriter>::write_packed_fixed on the
\* slice that starts at st.pos
write_packed_fixed_u64(self0, self1, st) ==
    IF ~st.ok THEN st
    ELSE IF st.pos > Len(st.buf)
    THEN Fail(st, "called Option::unwrap() on a None value")
    ELSE LET t == st.pos
             s0 == [st EXCEPT !.pos = t + 1]
             s1 == IF MagLt(self0, U8_MAX)
                   THEN put_bytes(set_tag(s0, t, U8_NUM), Pad(self0, 1))
                   ELSE IF MagLt(self0, U16_MAX)
                   THEN put_bytes(set_tag(s0, t, U16_NUM), Pad(self0, 2))
                   ELSE IF MagLt(self0, U32_MAX)
                   THEN put_bytes(set_tag(s0, t, U32_NUM), Pad(self0, 4))
                   ELSE put_bytes(set_tag(s0, t, U64_NUM), Pad(self0, 8))
         IN  IF self1 = <<1>> THEN s1
             ELSE IF MagLt(self1, U8_MAX)
             THEN put_bytes(or_tag(s1, t, U8_DEN), Pad(self1, 1))
             ELSE IF MagLt(self1, U16_MAX)
             THEN put_bytes(or_tag(s1, t, U16_DEN), Pad(self1, 2))
             ELSE IF MagLt(self1, U32_MAX)
             THEN put_bytes(put_bytes(or_tag(s1, t, U32_DEN), <<3>>), Pad(self1, 4))
             ELSE put_bytes(or_tag(s1, t, U64_DEN), Pad(self1, 8))

\* <(i64, i64) as PackedRationalNumberWriter>::write_packed_fixed
write_packed_fixed_i64(self0, self1, st, checks) ==
    LET num == i64_abs(self0, checks)
        den == i64_abs(self1, checks)
    IN  IF ~num.some \/ ~den.some THEN Fail(st, "attempt to negate with overflow")
        ELSE LET s1 == write_packed_fixed_u64(AsU64(num.val), AsU64(den.val), st)
             IN  IF (~self0.neg /\ self1.neg) \/ (self0.neg /\ ~self1.neg)
                 THEN or_tag(s1, st.pos, SIGN)
                 ELSE s1

\* <Number as PackedRationalNumberWriter>::write_packed_fixed
write_packed_fixed(self, buf, checks) ==
    CASE self.kind = "Natural" ->
            write_packed_fixed_i64(self.num, self.den, Slot(buf), checks)
      [] self.kind = "Large" ->
            Fail(Slot(buf), "not yet implemented: Writing large packed rational not implemented")
      [] self.kind = "FiniteField" ->
            write_packed_fixed_u64(self.elem, self.field, put_bytes(Slot(buf), <<FIN_NUM>>))

(***************************************************************************)
(* The readers.  A slice is a sequence of bytes; a reader yields           *)
(* [ok, val, rest], with ok = FALSE, val the message and rest empty when   *)
(* it panics.                                                              *)
(***************************************************************************)
Ret(v, rest) == [ok |-> TRUE, val |-> v, rest |-> rest]
Abort(msg) == [ok |-> FALSE, val |-> msg, rest |-> << >>]

Drop(source, k) == SubSeq(source, k + 1, Len(source))

\* Buf::get_u8, get_u16_le, get_u32_le, get_u64_le: the value of the first k
\* bytes, little-endian; a panic when fewer than k bytes remain.
get_uint_le(source, k) ==
    IF Len(source) < k THEN Abort("advance out of bounds")
    ELSE Ret(Strip(SubSeq(source, 1, k)), Drop(source, k))

\* Buf::advance
advance(source, k) ==
    IF Len(source) < k THEN Abort("advance out of bounds")
    ELSE Ret(0, Drop(source, k))

\* The numerator match of get_frac_u64 / get_frac_i64, on the slice after
\* the discriminator.
read_num(disc, source) ==
    LET t == BitAnd(disc, NUM_MASK)
    IN  CASE t = U8_NUM -> get_uint_le(source, 1)
          [] t = U16_NUM -> get_uint_le(source, 2)
          [] t = U32_NUM -> get_uint_le(source, 4)
          [] t = U64_NUM -> get_uint_le(source, 8)
          [] t = ARB_NUM -> Abort("Overflow")
          [] OTHER -> Abort("Unsupported numerator type")

\* The denominator match of get_frac_u64 / get_frac_i64.
read_den(disc, source) ==
    LET t == BitAnd(disc, DEN_MASK)
    IN  CASE t = 0 -> Ret(<<1>>, source)
          [] t = U8_DEN -> get_uint_le(source, 1)
          [] t = U16_DEN -> get_uint_le(source, 2)
          [] t = U32_DEN -> get_uint_le(source, 4)
          [] t = U64_DEN -> get_uint_le(source, 8)
          [] t = ARB_DEN -> Abort("Overflow")
          [] OTHER -> Abort("Unsupported denominator type")

\* <[u8] as PackedRationalNumberReader>::get_frac_u64: val is <<num, den>>
get_frac_u64(self) ==
    LET d == get_uint_le(self, 1)
    IN  IF ~d.ok THEN d
        ELSE LET disc == SmallOf(d.val)
                 num == read_num(disc, d.rest)
             IN  IF ~num.ok THEN num
                 ELSE LET den == read_den(disc, num.rest)
                      IN  IF ~den.ok THEN den
                          ELSE Ret(<<num.val, den.val>>, den.rest)

\* <[u8] as PackedRationalNumberReader>::get_frac_i64: val is <<num, den>>
get_frac_i64(self, checks) ==
    LET d == get_uint_le(self, 1)
    IN  IF ~d.ok THEN d
        ELSE LET disc == SmallOf(d.val)
                 num == read_num(disc, d.rest)
             IN  IF ~num.ok THEN num
                 ELSE LET den == read_den(disc, num.rest)
                      IN  IF ~den.ok THEN den
                          ELSE IF BitAnd(disc, SIGN) # 0
                          THEN LET neg == i64_neg(AsI64(num.val), checks)
                               IN  IF neg.some
                                   THEN Ret(<<neg.val, AsI64(den.val)>>, den.rest)
                                   ELSE Abort("attempt to negate with overflow")
                          ELSE Ret(<<AsI64(num.val), AsI64(den.val)>>, den.rest)

\* <[u8] as PackedRationalNumberReader>::get_number_view: val is a BorrowedNumber
get_number_view(self, checks) ==
    LET d == get_uint_le(self, 1)
    IN  IF ~d.ok THEN d
        ELSE LET disc == SmallOf(d.val)
                 source == d.rest
             IN  IF BitAnd(disc, NUM_MASK) = ARB_NUM
                 THEN IF Len(source) < SizeOfRational
                      THEN Abort("index out of range")
                      ELSE Ret(Large(SubSeq(source, 1, SizeOfRational)),
                               Drop(source, SizeOfRational))
                 ELSE IF BitAnd(disc, NUM_MASK) = FIN_NUM
                 THEN LET f == get_frac_u64(source)
                      IN  IF ~f.ok THEN f
                          ELSE Ret(FiniteField(f.val[1], f.val[2]), f.rest)
                 ELSE LET f == get_frac_i64(self, checks)
                      IN  IF ~f.ok THEN f
                          ELSE Ret(Natural(f.val[1], f.val[2]), f.rest)

\* The size computed by skip_rational from a discriminator: u8 + u8.
skip_size(var_size) ==
    LET n == get_size_of_natural(BitAnd(var_size, NUM_MASK))
        d == get_size_of_natural(BitAnd(var_size, DEN_MASK) \div 16)
    IN  IF n.ok /\ d.ok THEN Ok(n.val + d.val) ELSE Panic("unreachable")

\* <[u8] as PackedRationalNumberReader>::skip_rational
skip_rational(self) ==
    LET d == get_uint_le(self, 1)
    IN  IF ~d.ok THEN d
        ELSE LET var_size == SmallOf(d.val)
                 v_num == BitAnd(var_size, NUM_MASK)
             IN  IF v_num = ARB_NUM THEN advance(d.rest, SizeOfRational)
                 ELSE IF v_num = FIN_NUM
                 THEN LET d2 == get_uint_le(d.rest, 1)
                      IN  IF ~d2.ok THEN d2
                          ELSE LET size == skip_size(SmallOf(d2.val))
                               IN  IF ~size.ok THEN Abort(size.val)
                                   ELSE advance(d2.rest, size.val)
                 ELSE LET size == skip_size(var_size)
                      IN  IF ~size.ok THEN Abort(size.val)
                          ELSE advance(d.rest, size.val)

\* self[i] of a slice (0-based in the source): a panic past the end.
\* <[u8] as PackedRationalNumberReader>::is_zero_rat
is_zero_rat(self) ==
    IF Len(self) < 2 THEN Abort("index out of bounds")
    ELSE IF self[2] # 1 THEN Ret(FALSE, self)
    ELSE IF Len(self) < 3 THEN Abort("index out of bounds")
    ELSE Ret(self[3] = 0, self)

\* A probe that reads the first two bytes of its slice.
is_one_rat_from_start(self) ==
    IF Len(self) < 1 THEN Abort("index out of bounds")
    ELSE IF self[1] # 1 THEN Ret(FALSE, self)
    ELSE IF Len(self) < 2 THEN Abort("index out of bounds")
    ELSE Ret(self[2] = 1, self)

\* <[u8] as PackedRationalNumberReader>::is_one_rat
is_one_rat(self) ==
    IF Len(self) < 2 THEN Abort("index out of bounds")
    ELSE IF self[2] # 1 THEN Ret(FALSE, self)
    ELSE IF Len(self) < 3 THEN Abort("index out of bounds")
    ELSE Ret(self[3] = 1, self)

(***************************************************************************)
(* Library arithmetic used by the algebra: utils::gcd_signed, the checked  *)
(* power of i64, and rug's Rational (always canonical: reduced, with a     *)
(* positive denominator).                                                  *)
(***************************************************************************)
\* utils::gcd_signed: the non-negative greatest common divisor.
gcd_signed(a, b) == MkInt(FALSE, MagGcd(a.mag, b.mag))

IsOdd(m) == m # << >> /\ m[1] % 2 = 1
Half(m) == MagDiv(m, <<2>>)

\* i64::checked_pow(self, exp: u32): square and multiply, None on the first
\* product that is no i64.
RECURSIVE checked_pow_loop(_, _, _)
checked_pow_loop(acc, base, exp) ==
    IF exp = <<1>> THEN checked_mul(acc, base)
    ELSE LET acc2 == IF IsOdd(exp) THEN checked_mul(acc, base) ELSE Some(acc)
             base2 == checked_mul(base, base)
         IN  IF ~acc2.some \/ ~base2.some THEN None
             ELSE checked_pow_loop(acc2.val, base2.val, Half(exp))

checked_pow(base, exp) ==
    IF exp = << >> THEN Some(One) ELSE checked_pow_loop(One, base, exp)

\* Integer power, exact.
RECURSIVE IPowLoop(_)
IPowLoop(st) ==
    IF st.exp = << >> THEN st.acc
    ELSE IPowLoop([acc |-> IF IsOdd(st.exp) THEN IMul(st.acc, st.base) ELSE st.acc,
                   base |-> IF st.exp = <<1>> THEN st.base ELSE IMul(st.base, st.base),
                   exp |-> Half(st.exp)])

IPow(base, exp) == IPowLoop([acc |-> One, base |-> base, exp |-> exp])

\* Rational::from((n, d)) for d # 0
RatFrom(n, d) ==
    LET g == MagGcd(n.mag, d.mag)
    IN  [num |-> MkInt(n.neg # d.neg, MagDiv(n.mag, g)),
         den |-> MkInt(FALSE, MagDiv(d.mag, g))]

RatAdd(r1, r2) ==
    RatFrom(IAdd(IMul(r1.num, r2.den), IMul(r2.num, r1.den)), IMul(r1.den, r2.den))

RatMul(r1, r2) == RatFrom(IMul(r1.num, r2.num), IMul(r1.den, r2.den))

RatPow(r, exp) == [num |-> IPow(r.num, exp), den |-> IPow(r.den, exp)]

RatCmp(r1, r2) == ICmp(IMul(r1.num, r2.den), IMul(r2.num, r1.den))

\* std::cmp::Ordering
Ordering(k) == CASE k = -1 -> "Less" [] k = 0 -> "Equal" [] k = 1 -> "Greater"

(***************************************************************************)
(* The state's finite fields (crate::state::State, FiniteField<u64>): the  *)
(* field of an index is the integers modulo its prime.                     *)
(***************************************************************************)
get_prime(i) == IF i = << >> THEN <<7>> ELSE <<11>>

field_add(i, n1, n2) == MagMod(MagAdd(n1, n2), get_prime(i))
field_mul(i, n1, n2) == MagMod(MagMul(n1, n2), get_prime(i))

(***************************************************************************)
(* The coefficient algebra.  Operations that may panic yield Ok(value) or  *)
(* Panic(message).  Natural operands have non-zero denominators.           *)
(***************************************************************************)
\* BorrowedNumber::normalize
normalize(self) ==
    IF self.kind = "Natural"
    THEN LET gcd == gcd_signed(self.num, self.den)
         IN  IF IsZero(gcd) THEN Panic("attempt to divide by zero")
             ELSE Ok(Natural(IDiv(self.num, gcd), IDiv(self.den, gcd)))
    ELSE Ok(self)

\* Number::is_zero
is_zero(self) ==
    CASE self.kind = "Natural" -> IsZero(self.num)
      [] self.kind = "Large" -> FALSE
      [] self.kind = "FiniteField" -> self.elem = << >>

\* An addition that takes the product of the denominators as their common
\* multiple.
add_natural_product_of_denominators(n1, d1, n2, d2) ==
    LET lcm == checked_mul(d2, d1)
        num2 == checked_mul(n2, IDiv(lcm.val, d2))
        num1 == checked_mul(n1, IDiv(lcm.val, d1))
        num == checked_add(num1.val, num2.val)
        g == gcd_signed(num.val, lcm.val)
    IN  IF lcm.some /\ num2.some /\ num1.some /\ num.some
        THEN Natural(IDiv(num.val, g), IDiv(lcm.val, g))
        ELSE Large(RatAdd(RatFrom(n1, d1), RatFrom(n2, d2)))

\* The Natural + Natural arm of BorrowedNumber::add
add_natural(n1, d1, n2, d2) ==
    LET lcm == checked_mul(d2, IDiv(d1, gcd_signed(d1, d2)))
        num2 == checked_mul(n2, IDiv(lcm.val, d2))
        num1 == checked_mul(n1, IDiv(lcm.val, d1))
        num == checked_add(num1.val, num2.val)
        g == gcd_signed(num.val, lcm.val)
    IN  IF lcm.some /\ num2.some /\ num1.some /\ num.some
        THEN Natural(IDiv(num.val, g), IDiv(lcm.val, g))
        ELSE Large(RatAdd(RatFrom(n1, d1), RatFrom(n2, d2)))

\* BorrowedNumber::add
add(self, other) ==
    CASE self.kind = "Natural" /\ other.kind = "Natural" ->
            Ok(add_natural(self.num, self.den, other.num, other.den))
      [] self.kind = "Natural" /\ other.kind = "Large" ->
            Ok(Large(RatAdd(RatFrom(self.num, self.den), other.rat)))
      [] self.kind = "Large" /\ other.kind = "Natural" ->
            Ok(Large(RatAdd(RatFrom(other.num, other.den), self.rat)))
      [] self.kind = "Large" /\ other.kind = "Large" ->
            Ok(Large(RatAdd(self.rat, other.rat)))
      [] self.kind = "FiniteField" /\ other.kind = "FiniteField" ->
            IF self.field # other.field
            THEN Panic("Cannot add numbers from different finite fields")
            ELSE Ok(FiniteField(field_add(self.field, self.elem, other.elem), self.field))
      [] OTHER -> Panic("Cannot add finite field to non-finite number")

\* A multiplication that does not cancel the common factors of numerators
\* and denominators before it multiplies.
mul_natural_uncancelled(n1, d1, n2, d2) ==
    LET nn == checked_mul(n2, n1)
        nd == checked_mul(d1, d2)
    IN  IF nn.some /\ nd.some THEN Natural(nn.val, nd.val)
        ELSE Large(RatMul(RatFrom(n1, d1), RatFrom(n2, d2)))

\* The Natural * Natural arm of BorrowedNumber::mul
mul_natural(n1, d1, n2, d2) ==
    LET gcd1 == gcd_signed(n1, d2)
        gcd2 == gcd_signed(d1, n2)
        nn == checked_mul(IDiv(n2, gcd2), IDiv(n1, gcd1))
        nd == checked_mul(IDiv(d1, gcd2), IDiv(d2, gcd1))
    IN  IF nn.some
        THEN IF nd.some THEN Natural(nn.val, nd.val)
             ELSE Large(RatFrom(nn.val, IMul(IDiv(d1, gcd2), IDiv(d2, gcd1))))
        ELSE Large(RatFrom(IMul(IDiv(n1, gcd1), IDiv(n2, gcd2)),
                           IMul(IDiv(d1, gcd2), IDiv(d2, gcd1))))

\* BorrowedNumber::mul
mul(self, other) ==
    CASE self.kind = "Natural" /\ other.kind = "Natural" ->
            Ok(mul_natural(self.num, self.den, other.num, other.den))
      [] self.kind = "Natural" /\ other.kind = "Large" ->
            Ok(Large(RatMul(RatFrom(self.num, self.den), other.rat)))
      [] self.kind = "Large" /\ other.kind = "Natural" ->
            Ok(Large(RatMul(RatFrom(other.num, other.den), self.rat)))
      [] self.kind = "Large" /\ other.kind = "Large" ->
            Ok(Large(RatMul(self.rat, other.rat)))
      [] self.kind = "FiniteField" /\ other.kind = "FiniteField" ->
            IF self.field # other.field
            THEN Panic("Cannot multiply numbers from different finite fields")
            ELSE Ok(FiniteField(field_mul(self.field, self.elem, other.elem), self.field))
      [] OTHER -> Panic("Cannot multiply finite field to non-finite number")

\* The bound of pow on the (negated) exponent: n2 < u32::MAX as i64
pow_in_range(n2) == ILt(n2, MkInt(FALSE, U32_MAX))

\* The Natural ^ Natural arm of BorrowedNumber::pow, after the negation:
\* val is the pair <<factor, Natural(1, d2)>>
pow_natural(n1, d1, n2, d2) ==
    IF pow_in_range(n2)
    THEN LET e == AsU32(n2)
             pn == checked_pow(n1, e)
             pd == checked_pow(d1, e)
         IN  IF pn.some /\ pd.some
             THEN Ok(<<Natural(pn.val, pd.val), Natural(One, d2)>>)
             ELSE IF IsZero(d1) THEN Panic("division by zero")
             ELSE Ok(<<Large(RatPow(RatFrom(n1, d1), e)), Natural(One, d2)>>)
    ELSE Panic("Power is too large")

\* BorrowedNumber::pow
pow(self, other, checks) ==
    IF self.kind = "Natural" /\ other.kind = "Natural"
    THEN IF IsNeg(other.num)
         THEN LET n2 == i64_neg(other.num, checks)
              IN  IF ~n2.some THEN Panic("attempt to negate with overflow")
                  ELSE pow_natural(self.den, self.num, n2.val, other.den)
         ELSE pow_natural(self.num, self.den, other.num, other.den)
    ELSE Panic("not implemented")

\* The Natural, Natural arm of BorrowedNumber::cmp
cmp_natural(n1, d1, n2, d2) ==
    IF IsNeg(n1) /\ IsPos(n2) THEN "Less"
    ELSE IF IsPos(n1) /\ IsNeg(n2) THEN "Greater"
    ELSE LET a1 == checked_mul(n1, d2)
             a2 == checked_mul(n2, d1)
         IN  IF a1.some
             THEN IF a2.some THEN Ordering(ICmp(a1.val, a2.val))
                  ELSE Ordering(ICmp(a1.val, IMul(n2, d1)))
             ELSE Ordering(ICmp(IMul(n1, d2), IMul(n2, d1)))

\* BorrowedNumber::cmp
cmp(self, other) ==
    CASE self.kind = "Natural" /\ other.kind = "Natural" ->
            Ok(cmp_natural(self.num, self.den, other.num, other.den))
      [] self.kind = "Large" /\ other.kind = "Large" ->
            Ok(Ordering(RatCmp(self.rat, other.rat)))
      [] self.kind = "FiniteField" /\ other.kind = "FiniteField" ->
            Ok(Ordering(MagCmp(self.elem, other.elem)))
      [] self.kind = "Natural" /\ other.kind = "Large" ->
            Ok(Ordering(RatCmp(RatFrom(self.num, self.den), other.rat)))
      [] self.kind = "Large" /\ other.kind = "Natural" ->
            Ok(Ordering(RatCmp(self.rat, RatFrom(other.num, other.den))))
      [] OTHER -> Panic("unreachable")

(***************************************************************************)
(* State.                                                                  *)
(*   checks   the build's overflow checks (debug assertions) are on        *)
(*   dest     the byte vector the writer appends to (the tape)             *)
(*   written  the runs written so far: the Number, and the offsets p, q    *)
(*            of the run's first byte and of the byte after its last       *)
(*   pc       "write" while the tape is built; "read" once the tape is     *)
(*            borrowed from its first run on, "probe" once it is borrowed  *)
(*            from the byte before its first run; "abort" after a panic;   *)
(*            in the algebra "call" before the operation and "done" after  *)
(*   src      the slice the readers work on                                *)
(*   out      the last codec call: its name, the offset in the tape and    *)
(*            the first byte of the slice it was given, whether that slice *)
(*            was the tape's own bytes, and its result                     *)
(*   a, b, c  the operands of the algebra                                  *)
(*   res      the last call of the algebra: its name and result            *)
(***************************************************************************)
VARIABLES checks, dest, written, pc, src, out, a, b, c, res

vars == <<checks, dest, written, pc, src, out, a, b, c, res>>
codec_vars == <<dest, written, pc, src, out>>
algebra_vars == <<a, b, c, res>>

\* The most runs written to one tape.
MaxRuns == 2

NoCall == [op |-> "none", at |-> 0, disc |-> 0, genuine |-> TRUE,
           ok |-> TRUE, val |-> 0, rest |-> << >>]
NoRes == [op |-> "none", ok |-> TRUE, val |-> 0]

(***************************************************************************)
(* Inputs of the codec.                                                    *)
(***************************************************************************)
M(k) == MagOf(k)
U32_MAX_1 == MagSub(U32_MAX, <<1>>)
U64_MAX == MagSub(Mag2p64, <<1>>)

\* Numerators and denominators of every width class, with the values on
\* both sides of each class boundary.
NumVals ==
    { I(0), I(1), I(-1), I(254), I(255), I(65534), I(-65535),
      MkInt(FALSE, U32_MAX_1), MkInt(TRUE, U32_MAX), I64_MAX, I64_MIN }

DenVals ==
    { I(1), I(2), I(255), I(65534), I(65535), MkInt(FALSE, U32_MAX_1),
      MkInt(FALSE, U32_MAX), I64_MAX, I(-1), I(-2) }

ElemVals == { M(0), M(1), M(255), U64_MAX }
FieldVals == { M(0), M(1), M(65535) }

\* The bytes of a Rational object: two mpz_t (alloc, size, pointer to the
\* limbs), here a numerator of two limbs and a denominator of one.
RationalImage(k) ==
    [i \in 1..SizeOfRational |-> IF i \in {1, 5} THEN 2
                                 ELSE IF i \in {17, 21} THEN 1
                                 ELSE IF i \in {9, 25} THEN 16 * k ELSE 0]

Naturals == { Natural(n, d) : n \in NumVals, d \in DenVals }
FiniteFields == { FiniteField(e, f) : e \in ElemVals, f \in FieldVals }
Larges == { Large(RationalImage(1)) }

\* The first run of a tape is any of these; the runs after it are tail runs.
HeadNumbers == Naturals \cup FiniteFields \cup Larges
TailNumbers == { Natural(I(-3), I(2)), FiniteField(M(1), M(1)) }

\* The byte an atom puts before its coefficient.
HeaderBytes == { 1 }

\* Discriminators the writer never produces.
MalformedDiscs == { 0, 6, 81, 97, 133, 247 }

(***************************************************************************)
(* Codec actions.                                                          *)
(***************************************************************************)
Call(op, slice, r) ==
    [op |-> op, at |-> Len(dest) - Len(slice),
     disc |-> IF slice = << >> THEN 0 ELSE slice[1],
     genuine |-> slice = Drop(dest, Len(dest) - Len(slice)),
     ok |-> r.ok, val |-> r.val, rest |-> r.rest]

\* Number::write_packed(n, &mut dest)
WritePacked(n) ==
    /\ pc = "write"
    /\ Len(written) < MaxRuns
    /\ LET r == write_packed(n, dest, checks)
       IN  IF r.ok
           THEN /\ dest' = r.val
                /\ written' = Append(written, [num |-> n, p |-> Len(dest), q |-> Len(r.val)])
                /\ UNCHANGED <<pc, out>>
           ELSE /\ pc' = "abort"
                /\ out' = Call("write_packed", << >>, Abort(r.val))
                /\ UNCHANGED <<dest, written>>
    /\ UNCHANGED <<checks, src, algebra_vars>>

\* dest.put_u8(h): the header byte of the atom whose coefficient comes next
PutHeader(h) ==
    /\ pc = "write"
    /\ dest = << >>
    /\ dest' = Append(dest, h)
    /\ UNCHANGED <<checks, written, pc, src, out, algebra_vars>>

\* &dest[p..]: the readers are handed the tape from its first run on
BorrowRun ==
    /\ pc = "write"
    /\ written # << >>
    /\ pc' = "read"
    /\ src' = Drop(dest, written[1].p)
    /\ UNCHANGED <<checks, dest, written, out, algebra_vars>>

\* &dest[p - 1..]: a probe is handed the atom, the header byte and the run
BorrowAtom ==
    /\ pc = "write"
    /\ written # << >>
    /\ written[1].p >= 1
    /\ pc' = "probe"
    /\ src' = Drop(dest, written[1].p - 1)
    /\ UNCHANGED <<checks, dest, written, out, algebra_vars>>

\* Number::get_packed_size of the i-th number written, asked before the scan
GetPackedSize(i) ==
    /\ pc = "read"
    /\ out.op = "none"
    /\ i \in 1..Len(written)
    /\ out' = [Call("get_packed_size", Drop(dest, written[i].p),
                    Ret(get_packed_size(written[i].num), << >>))
               EXCEPT !.rest = << >>]
    /\ UNCHANGED <<checks, dest, written, pc, src, algebra_vars>>

\* A reader that consumes the head of the slice: the scan goes on behind it.
Read(op, r) ==
    /\ pc = "read"
    /\ out' = Call(op, src, r)
    /\ IF r.ok THEN src' = r.rest /\ pc' = pc ELSE src' = src /\ pc' = "abort"
    /\ UNCHANGED <<checks, dest, written, algebra_vars>>

GetNumberView == Read("get_number_view", get_number_view(src, checks))
GetFracU64 == Read("get_frac_u64", get_frac_u64(src))
GetFracI64 == Read("get_frac_i64", get_frac_i64(src, checks))
SkipRational == Read("skip_rational", skip_rational(src))

\* A probe: the slice stays as it is.
Probe(op, r) ==
    /\ pc \in {"read", "probe"}
    /\ out' = Call(op, src, r)
    /\ pc' = IF r.ok THEN pc ELSE "abort"
    /\ UNCHANGED <<checks, dest, written, src, algebra_vars>>

IsZeroRat == Probe("is_zero_rat", is_zero_rat(src))
IsOneRat == Probe("is_one_rat", is_one_rat(src))

\* The slice handed to a reader did not come from the writer: the byte at its
\* head is a discriminator the writer never produces.
Foreign(d) ==
    /\ pc = "read"
    /\ out.op \in {"none", "get_packed_size"}
    /\ src # << >>
    /\ src = Drop(dest, Len(dest) - Len(src))
    /\ src' = [src EXCEPT ![1] = d]
    /\ UNCHANGED <<checks, dest, written, pc, out, algebra_vars>>

InitCodec ==
    /\ checks \in BOOLEAN
    /\ dest = << >>
    /\ written = << >>
    /\ pc = "write"
    /\ src = << >>
    /\ out = NoCall
    /\ a = Natural(Zero, One) /\ b = Natural(Zero, One) /\ c = Natural(Zero, One)
    /\ res = NoRes

NextCodec ==
    \/ \E n \in (IF written = << >> THEN HeadNumbers ELSE TailNumbers) : WritePacked(n)
    \/ \E h \in HeaderBytes : PutHeader(h)
    \/ BorrowRun
    \/ BorrowAtom
    \/ \E i \in 1..MaxRuns : GetPackedSize(i)
    \/ GetNumberView
    \/ GetFracU64
    \/ GetFracI64
    \/ SkipRational
    \/ IsZeroRat
    \/ IsOneRat

SpecCodec == InitCodec /\ [][NextCodec]_vars

\* The codec with slices that the writer did not produce.
NextForeign ==
    \/ NextCodec
    \/ \E d \in MalformedDiscs : Foreign(d)

SpecForeign == InitCodec /\ [][NextForeign]_vars


(***************************************************************************)
(* Properties of the codec.                                                *)
(***************************************************************************)
\* The index of the run that starts at offset off of the tape, 0 if none does.
RunAt(off) ==
    IF \E i \in 1..Len(written) : written[i].p = off
    THEN CHOOSE i \in 1..Len(written) : written[i].p = off
    ELSE 0

\* The bytes of the i-th run, and the tape after it.
RunBytes(i) == SubSeq(dest, written[i].p + 1, written[i].q)
TailOf(i) == Drop(dest, written[i].q)

\* The last call was op, on the tape's own bytes from the first byte of a run.
OnRun(op) == out.op = op /\ out.genuine /\ RunAt(out.at) # 0

\* A valid Number in the sense of the round trip: a Natural with denominator
\* >= 1, or a FiniteField.
ValidNumber(n) ==
    \/ n.kind = "FiniteField"
    \/ n.kind = "Natural" /\ IsPos(n.den)

\* C1: round trip.  get_number_view on a run written by write_packed, whatever
\* follows it on the tape, returns the view of the number written (same variant,
\* same numerator and denominator, or element and field index) and, as the
\* remaining slice, exactly the tape after the run.
C1_RoundTrip ==
    (OnRun("get_number_view") /\ ValidNumber(written[RunAt(out.at)].num))
        => /\ out.ok
           /\ out.val = written[RunAt(out.at)].num
           /\ out.rest = TailOf(RunAt(out.at))

\* C2: size agreement.  get_packed_size(n) is the number of bytes that
\* write_packed(n) appended.
C2_SizeAgreement ==
    out.op = "get_packed_size"
        => out.val = written[RunAt(out.at)].q - written[RunAt(out.at)].p

\* C3: skip agreement.  skip_rational on a run of a Natural or a FiniteField
\* returns exactly the tape after the run, which is also the remaining slice
\* get_number_view returns there; so each skip consumes exactly one run.
C3_SkipAgreement ==
    (OnRun("skip_rational") /\ written[RunAt(out.at)].num.kind # "Large")
        => /\ out.ok
           /\ out.rest = TailOf(RunAt(out.at))
           /\ LET v == get_number_view(Drop(dest, out.at), checks)
              IN  v.ok /\ v.rest = out.rest

\* The discriminators that are to be rejected on input: NUM code 0 or 6, DEN
\* code 5 or 6, the sign bit together with FIN_NUM or ARB_NUM.
Malformed(disc) ==
    \/ BitAnd(disc, NUM_MASK) \in {0, 6}
    \/ BitAnd(disc, DEN_MASK) \div 16 \in {5, 6}
    \/ BitAnd(disc, SIGN) # 0 /\ BitAnd(disc, NUM_MASK) \in {FIN_NUM, ARB_NUM}

ReadOps == {"get_number_view", "get_frac_u64", "get_frac_i64", "skip_rational"}

\* C7: a read-side operation applied to a slice whose discriminator is
\* malformed ends in a fatal error: it returns no value and no remaining slice.
C7_MalformedRejected ==
    (out.op \in ReadOps /\ Malformed(out.disc)) => ~out.ok

\* The kind of an unsigned magnitude (1 = u8, 2 = u16, 3 = u32, 4 = u64) and
\* the number of bytes of a kind.
KindOf(m) ==
    IF MagLt(m, M(255)) THEN 1
    ELSE IF MagLt(m, M(65535)) THEN 2
    ELSE IF MagLt(m, MagSub(MagPow256(4), M(1))) THEN 3
    ELSE 4

WidthOf(k) == CASE k = 0 -> 0 [] k = 1 -> 1 [] k = 2 -> 2 [] k = 3 -> 4 [] k = 4 -> 8

MinusOneHalf == Natural(I(-1), I(2))

LayoutOf(n, d, bytes) ==
    LET nk == KindOf(n.mag)
        dk == IF d.mag = M(1) THEN 0 ELSE KindOf(d.mag)
        gap == IF dk = 3 THEN 1 ELSE 0
        sign == IF n.neg # d.neg THEN 128 ELSE 0
    IN  /\ Len(bytes) = 1 + WidthOf(nk) + gap + WidthOf(dk)
        /\ bytes[1] = sign + 16 * dk + nk
        /\ Strip(SubSeq(bytes, 2, 1 + WidthOf(nk))) = n.mag
        /\ gap = 1 => bytes[2 + WidthOf(nk)] = 3
        /\ dk # 0 => Strip(SubSeq(bytes, 2 + WidthOf(nk) + gap, Len(bytes))) = d.mag

C9_Original ==
    /\ OnRun("is_one_rat") => (out.ok /\ out.val = (RunBytes(RunAt(out.at)) = <<1, 1>>))
    /\ OnRun("is_zero_rat") => (out.ok /\ out.val = (RunBytes(RunAt(out.at)) = <<1, 0>>))

\* The last call was op, on the tape's own bytes from the byte before a run.
OnAtom(op) == out.op = op /\ out.genuine /\ RunAt(out.at + 1) # 0

\* C9, amended: the probes read the bytes at offsets 1 and 2 of their slice,
\* so they work on a run that follows one leading byte.  On such a slice
\* is_one_rat is true iff the run is 0x01 0x01 and is_zero_rat is true iff
\* the run is 0x01 0x00; neither panics.
C9_Probes ==
    /\ OnAtom("is_one_rat")
          => (out.ok /\ out.val = (RunBytes(RunAt(out.at + 1)) = <<1, 1>>))
    /\ OnAtom("is_zero_rat")
          => (out.ok /\ out.val = (RunBytes(RunAt(out.at + 1)) = <<1, 0>>))

\* is_one_rat has answered true on a header byte followed by the run of
\* Natural(1, 1).
C9_Witness ==
    /\ pc = "probe"
    /\ OnAtom("is_one_rat")
    /\ written[RunAt(out.at + 1)].num = Natural(I(1), I(1))
    /\ out.ok
    /\ out.val = TRUE


(***************************************************************************)
(* Inputs of the algebra.  In the algebra a Large holds the value of its   *)
(* Rational: the record [num, den] in canonical form.                      *)
(***************************************************************************)
Mag2p62 == <<0, 0, 0, 0, 0, 0, 0, 64>>
Mag2p32 == MagPow256(4)

\* Naturals in canonical form: reduced, with a denominator >= 1.
CanonicalNaturals ==
    { Natural(I(0), I(1)), Natural(I(1), I(1)), Natural(I(-1), I(1)),
      Natural(I(2), I(1)), Natural(I(1), I(2)), Natural(I(1), I(3)),
      Natural(I(-3), I(2)), Natural(I(3), I(2)), Natural(I(5), I(6)),
      Natural(I64_MAX, I(1)), Natural(I64_MIN, I(1)),
      Natural(I64_MAX, I(2)), Natural(I(1), I64_MAX),
      Natural(MkInt(FALSE, Mag2p62), I(3)),
      Natural(MkInt(FALSE, MagAdd(Mag2p62, M(1))), I(3)),
      Natural(I(1), MkInt(FALSE, Mag2p32)),
      Natural(I(3), MkInt(FALSE, Mag2p32)),
      Natural(I(-1), MkInt(FALSE, Mag2p62)) }

\* Further Naturals, most of them not reduced or with a negative denominator.
OtherNaturals ==
    { Natural(I(1), I(-2)), Natural(I(-1), I(-2)), Natural(I(2), I(4)),
      Natural(I(2), I(-4)), Natural(I(0), I(-3)), Natural(I(-6), I(3)),
      Natural(I(-1), I(4)), Natural(I64_MIN, I(2)) }

AlgebraLarges ==
    { Large(RatFrom(MkInt(FALSE, Mag2p64), I(1))),
      Large(RatFrom(MkInt(TRUE, Mag2p64), I(3))) }

AlgebraFields ==
    { FiniteField(M(3), M(0)), FiniteField(M(5), M(0)), FiniteField(M(5), M(1)) }

ArithOperands == CanonicalNaturals \cup OtherNaturals \cup AlgebraLarges \cup AlgebraFields

(***************************************************************************)
(* The algebra as a state machine: the operands a, b (and c) are chosen,   *)
(* then one operation is called on them and its result kept in res.        *)
(***************************************************************************)
Result(op, r) == [op |-> op, ok |-> r.ok, val |-> r.val]

Apply(op, r) ==
    /\ pc = "call"
    /\ res' = Result(op, r)
    /\ pc' = IF r.ok THEN "done" ELSE "abort"
    /\ UNCHANGED <<checks, dest, written, src, out, a, b, c>>

\* a.normalize()
Normalize == Apply("normalize", normalize(a))

\* a.add(&b, state)
Add == Apply("add", add(a, b))

\* a.mul(&b, state)
Mul == Apply("mul", mul(a, b))

\* a.pow(&b, state)
Pow == Apply("pow", pow(a, b, checks))

\* a.cmp(&b)
Cmp == Apply("cmp", cmp(a, b))

InitAlgebra ==
    /\ dest = << >>
    /\ written = << >>
    /\ src = << >>
    /\ out = NoCall
    /\ pc = "call"
    /\ res = NoRes

InitArith ==
    /\ InitAlgebra
    /\ checks = TRUE
    /\ a \in ArithOperands
    /\ b \in ArithOperands
    /\ c = Natural(Zero, One)

NextArith == Normalize \/ Add \/ Mul

SpecArith == InitArith /\ [][NextArith]_vars


(***************************************************************************)
(* Properties of the arithmetic.                                           *)
(***************************************************************************)
\* A Natural in canonical form: reduced, with a denominator >= 1.
Canonical(n) ==
    /\ n.kind = "Natural"
    /\ IsPos(n.den)
    /\ MagGcd(n.num.mag, n.den.mag) = M(1)

\* The rational value of a Natural with a non-zero denominator or of a Large,
\* in canonical form.
ValueOf(n) == IF n.kind = "Natural" THEN RatFrom(n.num, n.den) ELSE n.rat

\* The Number holds the rational r in canonical form.
Holds(n, r) ==
    IF n.kind = "Natural" THEN n.num = r.num /\ n.den = r.den
    ELSE n.kind = "Large" /\ n.rat = r

FitsRat(r) == FitsI64(r.num) /\ FitsI64(r.den)

\* The last call was op, on two Naturals in canonical form.
OnCanonical(op) == res.op = op /\ Canonical(a) /\ Canonical(b)

\* C4 as stated: on Naturals in canonical form add and mul return the exact
\* sum and product, as a Natural if and only if the numerator and the
\* denominator of the reduced result fit in an i64.
C4_Original ==
    /\ OnCanonical("add")
          => LET r == RatAdd(ValueOf(a), ValueOf(b))
             IN  res.ok /\ Holds(res.val, r) /\ (res.val.kind = "Natural" <=> FitsRat(r))
    /\ OnCanonical("mul")
          => LET r == RatMul(ValueOf(a), ValueOf(b))
             IN  res.ok /\ Holds(res.val, r) /\ (res.val.kind = "Natural" <=> FitsRat(r))

\* The values add computes in i64 before it reduces: the least common
\* multiple of the denominators, the two scaled numerators and their sum.
AddFits(n1, d1, n2, d2) ==
    LET lcm == IDiv(IMul(d1, d2), MkInt(FALSE, MagGcd(d1.mag, d2.mag)))
        s1 == IMul(n1, IDiv(lcm, d1))
        s2 == IMul(n2, IDiv(lcm, d2))
    IN  FitsI64(lcm) /\ FitsI64(s1) /\ FitsI64(s2) /\ FitsI64(IAdd(s1, s2))

\* C4, amended: on Naturals in canonical form add and mul return the exact
\* sum and product in canonical form.  The product is a Natural if and only
\* if its reduced numerator and denominator fit in an i64.  The sum is a
\* Natural if and only if the least common multiple of the denominators, both
\* scaled numerators and their sum fit in an i64; otherwise it is a Large,
\* also when the reduced sum fits.  A result that does not fit is a Large.
C4_Promotion ==
    /\ OnCanonical("add")
          => LET r == RatAdd(ValueOf(a), ValueOf(b))
             IN  /\ res.ok
                 /\ Holds(res.val, r)
                 /\ res.val.kind = "Natural" <=> AddFits(a.num, a.den, b.num, b.den)
                 /\ ~FitsRat(r) => res.val.kind = "Large"
    /\ OnCanonical("mul")
          => LET r == RatMul(ValueOf(a), ValueOf(b))
             IN  /\ res.ok
                 /\ Holds(res.val, r)
                 /\ res.val.kind = "Natural" <=> FitsRat(r)

\* add has returned a Large whose reduced value fits in an i64, on two
\* Naturals in canonical form.
C4_Witness ==
    /\ OnCanonical("add")
    /\ res.ok
    /\ res.val.kind = "Large"
    /\ FitsRat(res.val.rat)

\* n / d is the sum of a and b, by cross-multiplication in the integers.
ExactSum(n, d) ==
    IMul(n, IMul(a.den, b.den))
        = IMul(IAdd(IMul(a.num, b.den), IMul(b.num, a.den)), d)

\* n / d is the product of a and b, by cross-multiplication in the integers.
ExactProduct(n, d) ==
    IMul(n, IMul(a.den, b.den)) = IMul(IMul(a.num, b.num), d)

\* C12: whenever add or mul of two Naturals in canonical form returns a
\* Natural(n, d), it is in canonical form again (d >= 1, gcd(|n|, d) = 1,
\* zero stored as (0, 1)) and n / d is the exact sum or product.
C12_CanonicalPreserved ==
    /\ (OnCanonical("add") /\ res.ok /\ res.val.kind = "Natural")
          => /\ Canonical(res.val)
             /\ IsZero(res.val.num) => res.val.den = One
             /\ ExactSum(res.val.num, res.val.den)
    /\ (OnCanonical("mul") /\ res.ok /\ res.val.kind = "Natural")
          => /\ Canonical(res.val)
             /\ IsZero(res.val.num) => res.val.den = One
             /\ ExactProduct(res.val.num, res.val.den)

\* add has returned the Natural zero as the sum of two Naturals in canonical
\* form that are not zero and not both whole.
C12_Witness ==
    /\ OnCanonical("add")
    /\ res.ok
    /\ res.val = Natural(Zero, One)
    /\ ~IsZero(a.num)
    /\ a.den # One

\* C5: for every Natural(n, d) with d # 0, normalize returns Natural(n', d')
\* with d' >= 1, gcd(|n'|, d') = 1 and n' of the sign of the rational n/d.
C5_SignCanonical ==
    (res.op = "normalize" /\ a.kind = "Natural" /\ ~IsZero(a.den))
        => /\ res.ok
           /\ Canonical(res.val)
           /\ res.val.num.neg = RatFrom(a.num, a.den).num.neg
           /\ IsZero(res.val.num) = IsZero(a.num)


(***************************************************************************)
(* Comparison.  The three operands are Naturals and Larges, or elements of *)
(* one finite field.                                                       *)
(***************************************************************************)
CmpRationals ==
    { Natural(I(0), I(1)), Natural(I(1), I(2)), Natural(I(-1), I(2)),
      Natural(I(2), I(4)), Natural(I(1), I(-2)), Natural(I(-1), I(-2)),
      Natural(I(1), I(4)), Natural(I64_MAX, I(2)), Natural(I64_MAX, I(3)),
      Natural(I64_MIN, I(3)), Natural(I(-3), I64_MAX),
      Natural(I(0), I(-1)), Natural(I(-1), I(1)), Natural(I(1), I(1)) }
        \cup AlgebraLarges

CmpFields == { FiniteField(M(0), M(0)), FiniteField(M(3), M(0)), FiniteField(M(5), M(0)) }

InitCmp ==
    /\ InitAlgebra
    /\ checks = TRUE
    /\ \E family \in {CmpRationals, CmpFields} :
          a \in family /\ b \in family /\ c \in family

NextCmp == Cmp

SpecCmp == InitCmp /\ [][NextCmp]_vars

Reverse(o) == CASE o = "Less" -> "Greater" [] o = "Equal" -> "Equal" [] o = "Greater" -> "Less"

\* C6: cmp on Naturals with non-zero denominators and Larges is a total
\* preorder that agrees with the order of the rational values, also when
\* n1*d2 or n2*d1 is no i64: cmp(a, a) = Equal, cmp(b, a) is the reverse of
\* cmp(a, b), cmp(a, b) # Greater and cmp(b, c) # Greater imply
\* cmp(a, c) # Greater.  On elements of one finite field cmp is the order of
\* the element values.
C6_OrderingTotal ==
    res.op = "cmp"
        => /\ res.ok
           /\ cmp(a, a).val = "Equal"
           /\ cmp(b, a).val = Reverse(res.val)
           /\ (res.val # "Greater" /\ cmp(b, c).val # "Greater") => cmp(a, c).val # "Greater"
           /\ a.kind # "FiniteField" => res.val = Ordering(RatCmp(ValueOf(a), ValueOf(b)))
           /\ a.kind = "FiniteField" => res.val = Ordering(MagCmp(a.elem, b.elem))

(***************************************************************************)
(* Powers.  An exponent beyond MaxRaised in absolute value is applied to   *)
(* the bases 0, 1 and -1 only, whose powers stay small.                    *)
(***************************************************************************)
MaxRaised == 64

PowBases ==
    { Natural(I(2), I(3)), Natural(I(-2), I(3)), Natural(I(3), I(1)),
      Natural(I(0), I(1)), Natural(I(1), I(1)), Natural(I(-1), I(1)),
      Natural(I(-3), I(2)), Natural(I(1), I(3)) }

UnitBases == { Natural(I(0), I(1)), Natural(I(1), I(1)), Natural(I(-1), I(1)) }

SmallPowers == { I(k) : k \in {-3, -2, -1, 0, 1, 2, 3, 39, 40, 62, 63, MaxRaised, -MaxRaised} }

LargePowers ==
    { MkInt(FALSE, U32_MAX_1), MkInt(FALSE, U32_MAX), MkInt(FALSE, Mag2p32),
      MkInt(TRUE, U32_MAX_1), MkInt(TRUE, U32_MAX), MkInt(TRUE, Mag2p32),
      I64_MAX, I64_MIN }

InitPow ==
    /\ InitAlgebra
    /\ checks \in BOOLEAN
    /\ c = Natural(Zero, One)
    /\ \E e \in SmallPowers \cup LargePowers, r \in {I(1), I(2)} :
          /\ b = Natural(e, r)
          /\ a \in (IF e \in SmallPowers THEN PowBases ELSE UnitBases)

NextPow == Pow

SpecPow == InitPow /\ [][NextPow]_vars

\* C10: for a Natural base n/d and a Natural exponent e_n/e_d, with a
\* negative e_n negated and the base inverted, pow returns the pair of a
\* factor equal to (n/d)^e_n and Natural(1, e_d) for every 0 <= e_n < 2^32,
\* and ends in a fatal error for every e_n >= 2^32.
C10_PowBound ==
    (res.op = "pow" /\ ~(IsNeg(b.num) /\ IsZero(a.num)))
        => LET e == b.num.mag
               base == IF IsNeg(b.num) THEN RatFrom(a.den, a.num) ELSE RatFrom(a.num, a.den)
           IN  IF MagLt(e, Mag2p32)
               THEN /\ res.ok
                    /\ res.val[2] = Natural(One, b.den)
                    /\ res.val[1].kind = "Natural" => ~IsZero(res.val[1].den)
                    /\ ValueOf(res.val[1]) = RatPow(base, e)
               ELSE ~res.ok

\* C13: for a Natural base in canonical form and a Natural exponent e_n/e_d
\* with e_d >= 1 and |e_n| < 2^32 - 1, every Natural of the pair that pow
\* returns has a denominator >= 1.
C13_PowDenominator ==
    (res.op = "pow" /\ res.ok /\ Canonical(a) /\ b.kind = "Natural"
        /\ IsPos(b.den) /\ MagLt(b.num.mag, U32_MAX))
        => \A i \in 1..2 : res.val[i].kind = "Natural" => IsPos(res.val[i].den)



(***************************************************************************)
(* The fixed-size writer as a state machine: a caller reserves a slot of   *)
(* get_packed_size(a) bytes, whatever they held before, and then calls     *)
(* write_packed_fixed on it.                                               *)
(***************************************************************************)
FillBytes == { 0, 255 }

InitFixed ==
    /\ InitAlgebra
    /\ checks \in BOOLEAN
    /\ a \in HeadNumbers
    /\ b = Natural(Zero, One)
    /\ c = Natural(Zero, One)

\* let mut slot = vec![fill; a.get_packed_size()]
Allocate ==
    /\ pc = "call"
    /\ \E fill \in FillBytes : dest' = [i \in 1..get_packed_size(a) |-> fill]
    /\ pc' = "slot"
    /\ UNCHANGED <<checks, written, src, out, a, b, c, res>>

\* a.write_packed_fixed(&mut slot)
WritePackedFixed ==
    /\ pc = "slot"
    /\ LET r == write_packed_fixed(a, dest, checks)
       IN  /\ dest' = r.buf
           /\ res' = [op |-> "write_packed_fixed", ok |-> r.ok, val |-> r.msg]
           /\ pc' = IF r.ok THEN "done" ELSE "abort"
    /\ UNCHANGED <<checks, written, src, out, a, b, c>>

NextFixed == Allocate \/ WritePackedFixed

SpecFixed == InitFixed /\ [][NextFixed]_vars

\* C11: for a Natural or FiniteField a, write_packed_fixed into a slot of
\* exactly get_packed_size(a) bytes never writes past the end of the slot,
\* and whenever write_packed(a) appends bytes, write_packed_fixed completes
\* and the slot starts with those same bytes.
C11_FixedSlotFits ==
    (res.op = "write_packed_fixed" /\ a.kind \in {"Natural", "FiniteField"}) =>
        /\ res.ok \/ res.val \notin {"out of bounds",
                                     "called Option::unwrap() on a None value"}
        /\ LET w == write_packed(a, << >>, checks)
           IN  w.ok => /\ res.ok
                       /\ Len(w.val) <= Len(dest)
                       /\ SubSeq(dest, 1, Len(w.val)) = w.val

=============================================================================
